---- MODULE Spec2Model ----
(***************************************************************************)
(* BBMax: the dividend-capture put-option screener, in its two variants.   *)
(*                                                                         *)
(*   "Beta"  : src/BBMaxBeta.py  (grouped universe, milestone highlight)   *)
(*   "BBMax" : src/BBMax.py      (CSV universe, flat future-budget flag)   *)
(*                                                                         *)
(* Units.  Money is in integer cents.  A quotient that the code leaves as  *)
(* a float (an average, a budget) is an exact fraction <<num, den>> of     *)
(* cents with den > 0, compared by cross-multiplication; binary floating   *)
(* point rounding is not represented.  A calendar date is the number of    *)
(* days since 1970-01-01 (a normalized pandas Timestamp); a formatted date *)
(* ('%Y-%m-%d', datetime.date) is the triple <<year, month, day>>.         *)
(* An optional value (Python None or a value) is <<>> or <<value>>.        *)
(***************************************************************************)
EXTENDS Integers, Sequences, FiniteSets

VARIABLES variant, mode, params, pc, todo, log, all_results, shown, proj, frame

vars == <<variant, mode, params, pc, todo, log, all_results, shown, proj, frame>>

None == <<>>

Some(x) == <<x>>

IsNone(o) == o = <<>>

Max(a, b) == IF a >= b THEN a ELSE b

(***************************************************************************)
(* Calendar conversions: strftime('%Y-%m-%d') / .date() and pd.to_datetime *)
(***************************************************************************)
CivilFromDays(z0) ==
    LET z   == z0 + 719468
        era == z \div 146097
        doe == z - era * 146097
        yoe == (doe - doe \div 1460 + doe \div 36524 - doe \div 146096) \div 365
        doy == doe - (365 * yoe + yoe \div 4 - yoe \div 100)
        mp  == (5 * doy + 2) \div 153
        d   == doy - (153 * mp + 2) \div 5 + 1
        m   == IF mp < 10 THEN mp + 3 ELSE mp - 9
        y   == yoe + era * 400 + (IF m <= 2 THEN 1 ELSE 0)
    IN  <<y, m, d>>

DaysFromCivil(ymd) ==
    LET y   == ymd[1] - (IF ymd[2] <= 2 THEN 1 ELSE 0)
        era == y \div 400
        yoe == y - era * 400
        mp  == (ymd[2] + 9) % 12
        doy == (153 * mp + 2) \div 5 + ymd[3] - 1
        doe == yoe * 365 + yoe \div 4 - yoe \div 100 + doy
    IN  era * 146097 + doe - 719468

\* Order of two formatted dates: 'YYYY-MM-DD' strings compare field by field.
YmdLess(a, b) ==
    \/ a[1] < b[1]
    \/ a[1] = b[1] /\ a[2] < b[2]
    \/ a[1] = b[1] /\ a[2] = b[2] /\ a[3] < b[3]

(***************************************************************************)
(* Cadence projection (BBMaxBeta.py, analyze_symbol, lines 148-160)        *)
(***************************************************************************)
CadenceDays == 28

RECURSIVE AdvancePastMut(_, _)
AdvancePastMut(next, today) ==
    IF next < today THEN AdvancePastMut(next + CadenceDays, today) ELSE next

\* while next_expected_dividend_date <= today: += 28 days
RECURSIVE AdvancePast(_, _)
AdvancePast(next, today) ==
    IF next <= today THEN AdvancePast(next + CadenceDays, today) ELSE next

NextExpectedDividendDate(last, today) ==
    LET next == last + CadenceDays
    IN  IF today >= next THEN AdvancePast(next, today) ELSE next

HighlightDateMut(last, today, periods) ==
    NextExpectedDividendDate(last, today) + CadenceDays * periods

HighlightDate(last, today, periods) ==
    NextExpectedDividendDate(last, today) + CadenceDays * (periods - 1)

(***************************************************************************)
(* pandas sort_values(by=[...], ascending=[False, False]) and              *)
(* sort_index(ascending=False): a stable sort on the named keys.           *)
(* Precedes(a, b, by): a's key sorts strictly before b's key.              *)
(***************************************************************************)
Precedes(a, b, by) ==
    CASE by = "index" -> a.date > b.date
      [] by = "Timestamp, Last Price" ->
            \/ a.Expiration > b.Expiration
            \/ a.Expiration = b.Expiration /\ a.LastPrice > b.LastPrice
      [] by = "Expiration Date, Last Price" ->
            \/ YmdLess(b.ExpirationDate, a.ExpirationDate)
            \/ a.ExpirationDate = b.ExpirationDate /\ a.LastPrice > b.LastPrice
      [] by = "Expiration Date, Strike Price" ->
            \/ YmdLess(b.ExpirationDate, a.ExpirationDate)
            \/ a.ExpirationDate = b.ExpirationDate /\ a.StrikePrice > b.StrikePrice

RECURSIVE InsertStableMut(_, _, _)
InsertStableMut(t, x, by) ==
    IF t = <<>> THEN <<x>>
    ELSE IF ~Precedes(Head(t), x, by) THEN <<x>> \o t
    ELSE <<Head(t)>> \o InsertStableMut(Tail(t), x, by)

\* x goes in front of the first element it strictly precedes, so behind its ties
RECURSIVE InsertStable(_, _, _)
InsertStable(t, x, by) ==
    IF t = <<>> THEN <<x>>
    ELSE IF Precedes(x, Head(t), by) THEN <<x>> \o t
    ELSE <<Head(t)>> \o InsertStable(Tail(t), x, by)

\* a concatenation left in the order the frames were appended
sort_valuesMut(s, by) == s

RECURSIVE sort_values(_, _)
sort_values(s, by) ==
    IF s = <<>> THEN <<>>
    ELSE InsertStable(sort_values(SubSeq(s, 1, Len(s) - 1), by), s[Len(s)], by)

RECURSIVE Concat(_)
Concat(frames) ==
    IF frames = <<>> THEN <<>> ELSE Head(frames) \o Concat(Tail(frames))

RECURSIVE SumAmounts(_)
SumAmounts(recs) ==
    IF recs = <<>> THEN 0 ELSE Head(recs).amount + SumAmounts(Tail(recs))

(***************************************************************************)
(* Exact fractions of a cent                                               *)
(***************************************************************************)
Zero == <<0, 1>>

FracIsZero(f) == f[1] = 0

FracEq(f, g) == f[1] * g[2] = g[1] * f[2]

\* cents <= f
CentsLeq(cents, f) == cents * f[2] <= f[1]

(***************************************************************************)
(* Dividend summarizer                                                     *)
(***************************************************************************)
\* dividends.iloc[-n:]
LastN(recs, n) ==
    IF Len(recs) <= n THEN recs ELSE SubSeq(recs, Len(recs) - n + 1, Len(recs))

\* dividends.head(n)
FirstN(recs, n) ==
    IF Len(recs) <= n THEN recs ELSE SubSeq(recs, 1, n)

\* BBMaxBeta.py fetch_dividends_from_yfinance: the pair (avg_dividend, last_dividend_date)
fetch_dividends_from_yfinance(resp, num_dividends) ==
    IF resp.raised \/ resp.records = <<>>
    THEN [avg |-> Zero, last |-> None]
    ELSE LET recent == LastN(resp.records, num_dividends)
         IN  [avg  |-> <<SumAmounts(recent), Len(recent)>>,
              last |-> Some(resp.records[Len(resp.records)].date)]

\* an entry's index label: the timezone-aware Timestamp of the payment
IndexLabel(rec) == [date |-> rec.date, utcOffsetHours |-> rec.utcOffsetHours]

\* BBMax.py fetch_dividend_data: None, or (total, count, last_dividend_date, avg)
fetch_dividend_data(resp, num_past_dividends) ==
    IF resp.raised \/ resp.records = <<>>
    THEN None
    ELSE LET sorted == sort_values(resp.records, "index")
             last_n == FirstN(sorted, num_past_dividends)
         IN  IF last_n = <<>> THEN None
             ELSE Some([total |-> SumAmounts(last_n),
                        count |-> Len(last_n),
                        last  |-> IndexLabel(last_n[1]),
                        avg   |-> <<SumAmounts(last_n), Len(last_n)>>])

(***************************************************************************)
(* Budget calculator                                                       *)
(***************************************************************************)
SinglePremium(avg, pct) == <<avg[1] * pct, avg[2] * 100>>

ExtendedPremiumMut(avg, pct, periods) == SinglePremium(avg, pct)

\* avg_dividend * (pct / 100) * periods
ExtendedPremium(avg, pct, periods) ==
    LET single == SinglePremium(avg, pct) IN <<single[1] * periods, single[2]>>

\* int(current_price), np.floor(day_close_price): whole dollars of a positive price
FloorDollars(cents) == cents \div 100

\* BBMaxBeta.py line 118
StrikeThresholdBeta(close, strike_price_relative) ==
    Max(1, FloorDollars(close) - strike_price_relative)

\* BBMax.py lines 269 and 303
StrikeThresholdBBMax(close, strike_adjustment) ==
    FloorDollars(close) - strike_adjustment

(***************************************************************************)
(* Option chain feed and the filter                                        *)
(***************************************************************************)
\* BBMaxBeta.py fetch_put_options: the concatenated puts, or an empty frame
\* (an exception, pd.concat of no frames included, is caught)
fetch_put_options(resp) ==
    IF resp.raised THEN <<>> ELSE resp.puts

RECURSIVE FilterByStrike(_, _)
FilterByStrike(puts, strike_price_threshold) ==
    IF puts = <<>> THEN <<>>
    ELSE (IF Head(puts).strike >= strike_price_threshold * 100
          THEN <<Head(puts)>> ELSE <<>>)
         \o FilterByStrike(Tail(puts), strike_price_threshold)

RECURSIVE FilterByLastPriceMut(_, _)
FilterByLastPriceMut(puts, budget) ==
    IF puts = <<>> THEN <<>>
    ELSE (IF Head(puts).lastPrice * budget[2] < budget[1] THEN <<Head(puts)>> ELSE <<>>)
         \o FilterByLastPriceMut(Tail(puts), budget)

RECURSIVE FilterByLastPrice(_, _)
FilterByLastPrice(puts, budget) ==
    IF puts = <<>> THEN <<>>
    ELSE (IF CentsLeq(Head(puts).lastPrice, budget) THEN <<Head(puts)>> ELSE <<>>)
         \o FilterByLastPrice(Tail(puts), budget)

\* the frame after lines 133-141: renamed columns, the Symbol column, a
\* normalized Timestamp in 'Expiration Date' (no NaN or NaT is left to drop)
RECURSIVE RenameColumns(_, _)
RenameColumns(puts, symbol) ==
    IF puts = <<>> THEN <<>>
    ELSE <<[Expiration  |-> Head(puts).exp,
            StrikePrice |-> Head(puts).strike,
            LastPrice   |-> Head(puts).lastPrice,
            Symbol      |-> symbol]>> \o RenameColumns(Tail(puts), symbol)

IsHighlightedMut(ymd, highlight_date) == DaysFromCivil(ymd) > highlight_date

\* "✅" if pd.to_datetime(x) >= highlight_date else ""
IsHighlighted(ymd, highlight_date) == DaysFromCivil(ymd) >= highlight_date

\* lines 145 and 163: strftime('%Y-%m-%d'), then the Highlight column
RECURSIVE FormatAndHighlight(_, _)
FormatAndHighlight(rows, highlight_date) ==
    IF rows = <<>> THEN <<>>
    ELSE LET r   == Head(rows)
             ymd == CivilFromDays(r.Expiration)
         IN  <<[ExpirationDate |-> ymd,
                StrikePrice    |-> r.StrikePrice,
                LastPrice      |-> r.LastPrice,
                Symbol         |-> r.Symbol,
                Highlight      |-> IsHighlighted(ymd, highlight_date)]>>
             \o FormatAndHighlight(Tail(rows), highlight_date)

HighlightedRowsMut(rows) == rows

\* result[result['Highlight'] == "✅"]
RECURSIVE HighlightedRows(_)
HighlightedRows(rows) ==
    IF rows = <<>> THEN <<>>
    ELSE (IF Head(rows).Highlight THEN <<Head(rows)>> ELSE <<>>)
         \o HighlightedRows(Tail(rows))

(***************************************************************************)
(* BBMaxBeta.py analyze_symbol: the locals it computes and what it returns *)
(***************************************************************************)
Blank(symbol, divs) ==
    [symbol    |-> symbol,
     status    |-> "",
     messages  |-> <<>>,
     divs      |-> divs,
     price     |-> None,
     chain     |-> None,
     summary   |-> None,
     last      |-> None,
     single    |-> None,
     extended  |-> None,
     close     |-> None,
     threshold |-> None,
     puts      |-> None,
     milestone |-> None,
     result    |-> None]

analyze_symbol(symbol, divs, price, chain, P) ==
    LET d    == fetch_dividends_from_yfinance(divs, P.num_dividends)
        m0   == IF divs.raised THEN <<"Error fetching dividends">> ELSE <<>>
        b0   == [Blank(symbol, divs) EXCEPT !.summary = Some(d), !.last = d.last,
                                            !.messages = m0]
    IN  IF FracIsZero(d.avg) THEN [b0 EXCEPT !.status = "no dividend"]
        ELSE
        LET single == SinglePremium(d.avg, P.pct)
            ext    == ExtendedPremium(d.avg, P.pct, P.periods)
            b1     == [b0 EXCEPT !.single = Some(single), !.extended = Some(ext),
                                 !.price = Some(price)]
        IN  IF price.raised \/ price.closes = <<>>
            THEN [b1 EXCEPT !.status = "exception",
                            !.messages = m0 \o <<"Error analyzing">>]
            ELSE
            LET close == price.closes[Len(price.closes)]
                thr   == StrikeThresholdBeta(close, P.strike_offset)
                puts  == fetch_put_options(chain)
                m1    == IF chain.raised \/ chain.puts = <<>>
                         THEN m0 \o <<"Error fetching put options">> ELSE m0
                b2    == [b1 EXCEPT !.close = Some(close), !.threshold = Some(thr),
                                    !.chain = Some(chain),
                                    !.puts = Some(puts), !.messages = m1]
            IN  IF puts = <<>> THEN [b2 EXCEPT !.status = "no puts"]
                ELSE
                LET filtered == FilterByLastPrice(FilterByStrike(puts, thr), ext)
                IN  IF filtered = <<>> THEN [b2 EXCEPT !.status = "no match"]
                    ELSE
                    LET sorted_puts == sort_values(RenameColumns(filtered, symbol),
                                                   "Timestamp, Last Price")
                        highlight_date == HighlightDate(d.last[1], P.today, P.periods)
                    IN  [b2 EXCEPT !.status = "ok",
                                   !.milestone = Some(highlight_date),
                                   !.result = Some(FormatAndHighlight(sorted_puts,
                                                                      highlight_date))]

(***************************************************************************)
(* BBMax.py: fetch_put_option_data and the body of main's search branch    *)
(***************************************************************************)
\* (expiration_date - last_dividend_date).days: midnight UTC of the expiration
\* minus exchange-local midnight of the dividend date, whole days rounded down
TotalDays(exp, last) == (exp * 24 - (last.date * 24 + last.utcOffsetHours)) \div 24

RECURSIVE Opportunities(_, _, _, _, _, _, _)
Opportunities(puts, symbol, premium_budget, strike_price_threshold, summary, budget_percentage, dividend_frequency) ==
    IF puts = <<>> THEN <<>>
    ELSE LET row == Head(puts)
             future_occurrences == TotalDays(row.exp, summary.last) \div dividend_frequency
             estimated_future_budget ==
                 <<future_occurrences * summary.avg[1] * budget_percentage,
                   summary.avg[2] * 100>>
             valid == /\ row.strike >= strike_price_threshold * 100
                      /\ CentsLeq(row.lastPrice, premium_budget)
         IN  (IF valid
              THEN <<[ExpirationDate |-> CivilFromDays(row.exp),
                      StrikePrice    |-> row.strike,
                      LastPrice      |-> row.lastPrice,
                      Symbol         |-> symbol,
                      Highlight      |-> CentsLeq(row.lastPrice, estimated_future_budget),
                      FutureEvents   |-> future_occurrences]>>
              ELSE <<>>)
             \o Opportunities(Tail(puts), symbol, premium_budget, strike_price_threshold,
                              summary, budget_percentage, dividend_frequency)

fetch_put_option_data(symbol, premium_budget, strike_price_threshold, summary, budget_percentage, dividend_frequency, chain) ==
    IF chain.raised THEN <<>>
    ELSE Opportunities(chain.puts, symbol, premium_budget, strike_price_threshold,
                       summary, budget_percentage, dividend_frequency)

\* main's local variables, which outlive a turn of the loop over the CSV rows;
\* None is a name not yet bound
EmptyFrame ==
    [summary                |-> None,
     dividend_frequency     |-> None,
     premium_budget         |-> None,
     day_close_price        |-> None,
     strike_price_threshold |-> None]

\* the assignments of one pass (lines 257-269, 291-303) on top of the bindings
\* the previous pass left
LoopLocals(prev, dividend_frequency, divs, price, P) ==
    LET s  == fetch_dividend_data(divs, P.num_dividends)
        f0 == [prev EXCEPT !.summary = s]
    IN  IF IsNone(s) THEN f0
        ELSE
        LET f1 == [f0 EXCEPT !.dividend_frequency = Some(dividend_frequency),
                             !.premium_budget =
                                 Some(ExtendedPremium(s[1].avg, P.pct, P.periods))]
        IN  IF price.raised \/ price.closes = <<>> THEN f1
            ELSE LET close == price.closes[Len(price.closes)]
                 IN  [f1 EXCEPT !.day_close_price = Some(close),
                                !.strike_price_threshold =
                                    Some(StrikeThresholdBBMax(close, P.strike_offset))]

\* a pass that warns about the missing close price and goes on to the chain
ProceedsToChainMut(price) == TRUE

\* lines 267-272 (301-306): without a close price the pass ends at `continue`
\* (`return`), otherwise it goes on to the option chain
ProceedsToChain(price) == price.closes # <<>>

\* one symbol's pass through lines 257-276 (batch) or 291-328 (single), f being
\* main's locals as the pass binds them; every value is read from these locals,
\* an unbound name raises
search_symbol(symbol, divs, price, chain, P, f) ==
    LET s  == f.summary
        m0 == <<IF divs.raised THEN "Failed to fetch dividend data"
                ELSE "No dividend data available">>
        b0 == [Blank(symbol, divs) EXCEPT !.summary = s]
    IN  IF IsNone(s) THEN [b0 EXCEPT !.status = "no dividend", !.messages = m0]
        ELSE
        LET b1 == [b0 EXCEPT !.last = Some(s[1].last.date),
                             !.single = Some(SinglePremium(s[1].avg, P.pct)),
                             !.extended = f.premium_budget,
                             !.price = Some(price)]
        IN  IF price.raised THEN [b1 EXCEPT !.status = "uncaught"]
            ELSE IF ~ProceedsToChain(price)
            THEN [b1 EXCEPT !.status = "no price",
                            !.messages = <<"Close price data not available">>]
            ELSE IF IsNone(f.strike_price_threshold) THEN [b1 EXCEPT !.status = "uncaught"]
            ELSE
            LET opportunities == fetch_put_option_data(symbol, f.premium_budget[1],
                                                       f.strike_price_threshold[1], s[1],
                                                       P.pct, f.dividend_frequency[1], chain)
                b2    == [b1 EXCEPT !.close = f.day_close_price,
                                    !.threshold = f.strike_price_threshold,
                                    !.chain = Some(chain),
                                    !.puts = Some(IF chain.raised THEN <<>> ELSE chain.puts),
                                    !.messages = IF chain.raised
                                                 THEN <<"Failed to fetch put option data">>
                                                 ELSE <<>>]
            IN  IF opportunities = <<>> THEN [b2 EXCEPT !.status = "no match"]
                ELSE [b2 EXCEPT !.status = "ok", !.result = Some(opportunities)]

(***************************************************************************)
(* The symbol universe and what the external feeds can answer              *)
(***************************************************************************)
MaxChain == 3

MaxBatchChain == 1

\* BBMaxBeta.py: the groups, iterated group by group, member by member
YIELDMAX_GROUPS == << <<"A", "B">>, <<"C">> >>

\* BBMax.py: the rows of the symbols CSV (Symbol, Frequency in days)
symbols_data ==
    << [Symbol |-> "A", Frequency |-> 28],
       [Symbol |-> "B", Frequency |-> 28],
       [Symbol |-> "C", Frequency |-> 7] >>

RECURSIVE SymbolColumn(_)
SymbolColumn(rows) ==
    IF rows = <<>> THEN <<>> ELSE <<Head(rows).Symbol>> \o SymbolColumn(Tail(rows))

Universe(v) == IF v = "Beta" THEN Concat(YIELDMAX_GROUPS) ELSE SymbolColumn(symbols_data)

Frequency(symbol) ==
    (CHOOSE row \in {symbols_data[i] : i \in DOMAIN symbols_data} : row.Symbol = symbol).Frequency

\* ticker.dividends, oldest first, with exchange-local dates (UTC-5 in winter)
Paid(date, amount) == [date |-> date, utcOffsetHours |-> 5, amount |-> amount]

DividendHistories ==
    { <<>>,
      <<Paid(20091, 0)>>,
      <<Paid(20091, 50)>>,
      <<Paid(20063, 40), Paid(20091, 60)>> }

DividendFeed(m) ==
    {[raised |-> TRUE, records |-> <<>>]}
    \cup {[raised |-> FALSE, records |-> h] :
            h \in IF m = "single" THEN DividendHistories
                  ELSE {<<>>, <<Paid(20063, 40), Paid(20091, 60)>>}}

\* ticker.history(period="1d"): the rows' Close, in cents
PriceFeed(m) ==
    {[raised |-> TRUE, closes |-> <<>>], [raised |-> FALSE, closes |-> <<>>]}
    \cup {[raised |-> FALSE, closes |-> <<c>>] :
            c \in IF m = "single" THEN {350, 1275} ELSE {1275}}

Put(exp, strike, lastPrice) == [exp |-> exp, strike |-> strike, lastPrice |-> lastPrice]

\* expirations 2025-03-21, 2025-04-25, 2025-06-20
Contracts ==
    { Put(20168, 900, 30),
      Put(20203, 500, 45), Put(20203, 900, 55), Put(20203, 1000, 30),
      Put(20259, 900, 30), Put(20259, 900, 45), Put(20259, 1000, 45) }

\* the puts of all expirations, concatenated in the feed's order of expirations:
\* distinct contracts, expirations ascending
RECURSIVE Chains(_)
Chains(n) ==
    IF n = 0 THEN {<<>>}
    ELSE LET shorter == Chains(n - 1)
         IN  shorter \cup
             { Append(c, p) : c \in {x \in shorter : Len(x) = n - 1},
                              p \in Contracts }

WellFormedChain(c) ==
    \A i, j \in DOMAIN c : i < j => /\ c[i].exp <= c[j].exp
                                     /\ <<c[i].exp, c[i].strike>> # <<c[j].exp, c[j].strike>>

ChainFeed(m) ==
    {[raised |-> TRUE, puts |-> <<>>]}
    \cup {[raised |-> FALSE, puts |-> c] :
            c \in {x \in Chains(IF m = "single" THEN MaxChain ELSE MaxBatchChain) :
                     WellFormedChain(x)}}

\* the sidebar inputs, and pd.Timestamp.now().normalize() (2025-02-15)
ParamChoices(m) ==
    [num_dividends : IF m = "single" THEN {1, 2} ELSE {2},
     pct           : {25},
     periods       : {3, 4},
     strike_offset : {4},
     today         : {20134}]

(***************************************************************************)
(* The "Search for Opportunities" handler                                  *)
(***************************************************************************)
Screen(messages, table) == [messages |-> messages, table |-> table]

ProjIdle == [last |-> 0, asOf |-> 0, periods |-> 0, milestone |-> None]

Init ==
    /\ variant \in {"Beta", "BBMax"}
    /\ mode \in {"single", "batch"}
    /\ params \in ParamChoices(mode)
    /\ pc = "ready"
    /\ todo = <<>>
    /\ log = <<>>
    /\ all_results = <<>>
    /\ shown = Screen(<<>>, <<>>)
    /\ proj = ProjIdle
    /\ frame = EmptyFrame

\* the button: one selected symbol, or the whole universe in iteration order
Search ==
    /\ pc = "ready"
    /\ pc' = "running"
    /\ \E selected \in {Universe(variant)[i] : i \in DOMAIN Universe(variant)} :
          todo' = IF mode = "batch" THEN Universe(variant) ELSE <<selected>>
    /\ UNCHANGED <<variant, mode, params, log, all_results, shown, proj, frame>>

\* BBMaxBeta.py lines 204-211
AnalyzeSelected ==
    /\ pc = "running" /\ variant = "Beta" /\ mode = "single" /\ todo # <<>>
    /\ \E divs \in DividendFeed(mode), price \in PriceFeed(mode), chain \in ChainFeed(mode) :
          LET a == analyze_symbol(Head(todo), divs, price, chain, params)
          IN  /\ log' = Append(log, a)
              /\ shown' = IF IsNone(a.result) THEN Screen(a.messages, <<>>)
                          ELSE Screen(a.messages \o <<"Opportunities for">>, a.result[1])
    /\ todo' = Tail(todo)
    /\ pc' = "done"
    /\ UNCHANGED <<variant, mode, params, all_results, proj, frame>>

\* BBMaxBeta.py lines 189-195: one turn of the loop over the groups' symbols
AnalyzeNext ==
    /\ pc = "running" /\ variant = "Beta" /\ mode = "batch" /\ todo # <<>>
    /\ \E divs \in DividendFeed(mode), price \in PriceFeed(mode), chain \in ChainFeed(mode) :
          LET a == analyze_symbol(Head(todo), divs, price, chain, params)
              highlighted_rows == IF IsNone(a.result) THEN <<>>
                                  ELSE HighlightedRows(a.result[1])
          IN  /\ log' = Append(log, a)
              /\ all_results' = IF highlighted_rows = <<>> THEN all_results
                                ELSE Append(all_results, highlighted_rows)
              /\ shown' = Screen(shown.messages \o a.messages, <<>>)
    /\ todo' = Tail(todo)
    /\ UNCHANGED <<variant, mode, params, pc, proj, frame>>

\* BBMaxBeta.py lines 196-202
Consolidate ==
    /\ pc = "running" /\ variant = "Beta" /\ mode = "batch" /\ todo = <<>>
    /\ shown' = IF all_results # <<>>
                THEN Screen(shown.messages \o <<"Consolidated Opportunities (Highlighted Only)">>,
                            sort_values(Concat(all_results), "Expiration Date, Last Price"))
                ELSE Screen(shown.messages \o <<"No highlighted opportunities found for any symbols.">>,
                            <<>>)
    /\ pc' = "done"
    /\ UNCHANGED <<variant, mode, params, todo, log, all_results, proj, frame>>

\* BBMax.py lines 289-328
SearchSelected ==
    /\ pc = "running" /\ variant = "BBMax" /\ mode = "single" /\ todo # <<>>
    /\ \E divs \in DividendFeed(mode), price \in PriceFeed(mode), chain \in ChainFeed(mode) :
          LET a == search_symbol(Head(todo), divs, price, chain, params,
                                 LoopLocals(frame, Frequency(Head(todo)), divs, price, params))
          IN  /\ log' = Append(log, a)
              /\ frame' = LoopLocals(frame, Frequency(Head(todo)), divs, price, params)
              /\ pc' = IF a.status = "uncaught" THEN "aborted" ELSE "done"
              /\ shown' =
                   CASE a.status = "ok" ->
                          Screen(a.messages \o <<"Put Options Opportunities:">>,
                                 sort_values(a.result[1], "Expiration Date, Strike Price"))
                     [] a.status = "no match" ->
                          Screen(a.messages \o <<"No opportunities found for the selected symbol.">>,
                                 <<>>)
                     [] OTHER -> Screen(a.messages, <<>>)
    /\ todo' = Tail(todo)
    /\ UNCHANGED <<variant, mode, params, all_results, proj>>

\* BBMax.py lines 256-276: one turn of the loop over the CSV rows
SearchNext ==
    /\ pc = "running" /\ variant = "BBMax" /\ mode = "batch" /\ todo # <<>>
    /\ \E divs \in DividendFeed(mode), price \in PriceFeed(mode), chain \in ChainFeed(mode) :
          LET a == search_symbol(Head(todo), divs, price, chain, params,
                                 LoopLocals(frame, Frequency(Head(todo)), divs, price, params))
          IN  /\ log' = Append(log, a)
              /\ frame' = LoopLocals(frame, Frequency(Head(todo)), divs, price, params)
              /\ pc' = IF a.status = "uncaught" THEN "aborted" ELSE pc
              /\ all_results' = IF IsNone(a.result) THEN all_results
                                ELSE Append(all_results, a.result[1])
              /\ shown' = Screen(shown.messages \o a.messages, <<>>)
    /\ todo' = Tail(todo)
    /\ UNCHANGED <<variant, mode, params, proj>>

\* BBMax.py lines 278-288
Combine ==
    /\ pc = "running" /\ variant = "BBMax" /\ mode = "batch" /\ todo = <<>>
    /\ shown' = IF all_results # <<>>
                THEN Screen(shown.messages \o <<"Put Options Opportunities for All Symbols:">>,
                            sort_values(Concat(all_results), "Expiration Date, Strike Price"))
                ELSE Screen(shown.messages \o <<"No opportunities found for the selected criteria.">>,
                            <<>>)
    /\ pc' = "done"
    /\ UNCHANGED <<variant, mode, params, todo, log, all_results, proj, frame>>

Next ==
    \/ Search
    \/ AnalyzeSelected
    \/ AnalyzeNext
    \/ Consolidate
    \/ SearchSelected
    \/ SearchNext
    \/ Combine

Spec == Init /\ [][Next]_vars

(***************************************************************************)
(* The cadence projection on its own: lines 148-160 of analyze_symbol run  *)
(* on a last dividend date, an evaluation date and a number of periods     *)
(***************************************************************************)
MaxPeriods == 4

ProjInit ==
    /\ variant = "Beta" /\ mode = "single"
    /\ params \in ParamChoices("batch")
    /\ pc = "ready" /\ todo = <<>> /\ log = <<>> /\ all_results = <<>>
    /\ shown = Screen(<<>>, <<>>)
    /\ frame = EmptyFrame
    /\ proj \in [last : 20080 .. 20100, asOf : 20085 .. 20150,
                 periods : 1 .. MaxPeriods, milestone : {None}]

Project ==
    /\ IsNone(proj.milestone)
    /\ proj' = [proj EXCEPT !.milestone = Some(HighlightDate(proj.last, proj.asOf, proj.periods))]
    /\ UNCHANGED <<variant, mode, params, pc, todo, log, all_results, shown, frame>>

ProjNext == Project

SpecProjector == ProjInit /\ [][ProjNext]_vars

(***************************************************************************)
(* Properties                                                              *)
(***************************************************************************)
Analyses == {log[i] : i \in DOMAIN log}

Rows(a) == IF IsNone(a.result) THEN <<>> ELSE a.result[1]

RowSet(rows) == {rows[i] : i \in DOMAIN rows}

\* the contract a result row was made from
RowContract(r) == Put(DaysFromCivil(r.ExpirationDate), r.StrikePrice, r.LastPrice)

Admissible(a) ==
    {c \in RowSet(a.puts[1]) : /\ c.strike >= a.threshold[1] * 100
                               /\ c.lastPrice * a.extended[1][2] <= a.extended[1][1]}

\* the first date last + k * cadence, k >= 1, that is strictly after asOf
FirstFutureDate(last, cadence, asOf) ==
    LET steps == Max(0, asOf - last) \div cadence + 1
        dates == {last + k * cadence : k \in 1 .. steps}
    IN  CHOOSE d \in dates : d > asOf /\ \A e \in dates : e > asOf => d <= e

Milestone(last, cadence, periods, asOf) ==
    FirstFutureDate(last, cadence, asOf) + cadence * (periods - 1)

\* C1: whenever the filter has run on a symbol's chain, the symbol's rows are
\* exactly the chain's contracts with strike >= strikeThreshold and
\* lastPrice <= extendedPremium, each once: none dropped, none added.
C1_FilterExact ==
    \A a \in Analyses :
        ~IsNone(a.puts) =>
            /\ {RowContract(r) : r \in RowSet(Rows(a))} = Admissible(a)
            /\ Len(Rows(a)) = Cardinality(Admissible(a))

\* C1 witness: with an extended premium of 0.50 a chain holds a put at 0.45 and
\* a put at 0.55, both at an admissible strike; the first is kept, the second not.
C1_Witness ==
    \E a \in Analyses :
        /\ ~IsNone(a.puts) /\ FracEq(a.extended[1], <<50, 1>>)
        /\ \E c, d \in RowSet(a.puts[1]) :
              /\ c.lastPrice = 45 /\ d.lastPrice = 55
              /\ c.strike >= a.threshold[1] * 100 /\ d.strike >= a.threshold[1] * 100
              /\ c \in {RowContract(r) : r \in RowSet(Rows(a))}
              /\ d \notin {RowContract(r) : r \in RowSet(Rows(a))}

HighlightFollowsMilestone(a) ==
    \A r \in RowSet(Rows(a)) :
        r.Highlight <=>
            DaysFromCivil(r.ExpirationDate) >=
                Milestone(a.last[1],
                          IF variant = "Beta" THEN CadenceDays ELSE Frequency(a.symbol),
                          params.periods, params.today)

ProjectedFrom(p) == FirstFutureDate(p.last, CadenceDays, p.asOf)

\* C3: the projected milestone is D + cadenceDays * (periodsAhead - 1), D being
\* the first date lastDividendDate + k * cadenceDays (k >= 1) strictly after
\* asOf; D > asOf, and for periodsAhead = 1 the milestone is D.
C3_Milestone ==
    ~IsNone(proj.milestone) =>
        /\ proj.milestone[1] = ProjectedFrom(proj) + CadenceDays * (proj.periods - 1)
        /\ ProjectedFrom(proj) > proj.asOf
        /\ proj.periods = 1 => proj.milestone[1] = ProjectedFrom(proj)

\* C3 witness: a projection whose evaluation date falls exactly on an expected
\* dividend date, so that the next one is a full cadence later.
C3_Witness ==
    /\ ~IsNone(proj.milestone)
    /\ proj.asOf = proj.last + 2 * CadenceDays
    /\ proj.periods = 1
    /\ proj.milestone[1] = proj.asOf + CadenceDays

C4_Scenario ==
    /\ ~IsNone(proj.milestone)
    /\ proj.last = DaysFromCivil(<<2025, 1, 2>>)
    /\ proj.asOf = DaysFromCivil(<<2025, 2, 15>>)
    /\ proj.periods = 3

\* C4, as claimed: last dividend 2025-01-02, 28-day cadence, 3 periods ahead,
\* evaluated on 2025-02-15: the milestone is 2025-06-22.
C4_Original == C4_Scenario => CivilFromDays(proj.milestone[1]) = <<2025, 6, 22>>

\* C4, amended: for the same inputs the milestone is 2025-04-24 (the first
\* expected dividend after 2025-02-15 is 2025-02-27, plus 2 * 28 days).
C4_Milestone ==
    C4_Scenario =>
        /\ CivilFromDays(proj.milestone[1]) = <<2025, 4, 24>>
        /\ CivilFromDays(proj.milestone[1] - 2 * CadenceDays) = <<2025, 2, 27>>

\* C4 witness: the scenario's projection has been computed.
C4_Witness == C4_Scenario /\ proj.milestone[1] = DaysFromCivil(<<2025, 4, 24>>)

RECURSIVE AllRows(_)
AllRows(analyses) ==
    IF analyses = <<>> THEN {}
    ELSE RowSet(Rows(Head(analyses))) \cup AllRows(Tail(analyses))

\* rows in the order expirationDate descending, then lastPrice descending
OrderedByExpirationThenPrice(rows) ==
    \A i, j \in DOMAIN rows :
        i < j => \/ YmdLess(rows[j].ExpirationDate, rows[i].ExpirationDate)
                 \/ /\ rows[j].ExpirationDate = rows[i].ExpirationDate
                    /\ rows[j].LastPrice <= rows[i].LastPrice

\* rows in the order expirationDate descending, then strike descending
OrderedByExpirationThenStrike(rows) ==
    \A i, j \in DOMAIN rows :
        i < j => \/ YmdLess(rows[j].ExpirationDate, rows[i].ExpirationDate)
                 \/ /\ rows[j].ExpirationDate = rows[i].ExpirationDate
                    /\ rows[j].StrikePrice <= rows[i].StrikePrice

BatchShowsHighlightedOnly ==
    (mode = "batch" /\ pc = "done") =>
        /\ RowSet(shown.table) = {r \in AllRows(log) : r.Highlight}
        /\ Len(shown.table) = Cardinality(RowSet(shown.table))
        /\ OrderedByExpirationThenPrice(shown.table)

Contribution(a) ==
    IF variant = "Beta" THEN RowSet(HighlightedRows(Rows(a))) ELSE RowSet(Rows(a))

\* C6, as claimed: a batch run ends only after every symbol of the universe
\* has been processed in iteration order, whatever fetch failed on the way, and
\* its table holds the rows of every symbol that did not fail.
C6_BatchNeverAborts ==
    (mode = "batch" /\ pc \notin {"ready", "running"}) =>
        /\ pc = "done"
        /\ Len(log) = Len(Universe(variant))
        /\ \A i \in DOMAIN log : log[i].symbol = Universe(variant)[i]
        /\ \A a \in Analyses : Contribution(a) \subseteq RowSet(shown.table)

\* C7, as claimed: in every variant the strike threshold used by the filter is
\* max(1, floor(currentPrice) - strikeOffset), so never below 1.
C7_ThresholdClamped ==
    \A a \in Analyses :
        ~IsNone(a.threshold) =>
            /\ a.threshold[1] = Max(1, (a.close[1] \div 100) - params.strike_offset)
            /\ a.threshold[1] >= 1

\* C8: the budget used by the filter is avgDividend * (pct/100) * periods, the
\* single-period premium is avgDividend * (pct/100), and an average of 0.50
\* with pct = 25 and periods = 4 gives an extended premium of 0.50.
C8_Budget ==
    \A a \in Analyses :
        ~IsNone(a.extended) =>
            LET avg == a.summary[1].avg
            IN  /\ a.extended[1][1] * (avg[2] * 100)
                     = avg[1] * params.pct * params.periods * a.extended[1][2]
                /\ a.single[1][1] * (avg[2] * 100) = avg[1] * params.pct * a.single[1][2]
                /\ (FracEq(avg, <<50, 1>>) /\ params.pct = 25 /\ params.periods = 4)
                      => FracEq(a.extended[1], <<50, 1>>)

\* C8 witness: a symbol averaging 0.50 over two dividends, pct = 25, periods = 4,
\* whose extended premium is 0.50 and whose single-period premium is 0.125.
C8_Witness ==
    \E a \in Analyses :
        /\ ~IsNone(a.extended)
        /\ a.summary[1].avg = <<100, 2>>
        /\ params.pct = 25 /\ params.periods = 4
        /\ FracEq(a.extended[1], <<50, 1>>)
        /\ FracEq(a.single[1], <<25, 2>>)

\* position of a row's contract in the chain as fetched
ChainIndex(a, r) == CHOOSE i \in DOMAIN a.puts[1] : a.puts[1][i] = RowContract(r)

TiesKeepChainOrder(a, rows) ==
    \A i, j \in DOMAIN rows :
        (/\ i < j
         /\ rows[i].ExpirationDate = rows[j].ExpirationDate
         /\ rows[i].LastPrice = rows[j].LastPrice)
            => ChainIndex(a, rows[i]) < ChainIndex(a, rows[j])

\* the rows a symbol's analysis hands to the page
Displayed(a) == IF variant = "BBMax" /\ mode = "single" THEN shown.table ELSE Rows(a)

C10_EmptyIsDistinct ==
    \A a \in Analyses :
        /\ (~a.divs.raised /\ a.divs.records = <<>>) => IsNone(a.summary)
        /\ a.status = "no dividend" => (a.divs.raised \/ a.divs.records = <<>>)

\* what each summarizer returns for "no data": BBMax.py's None, BBMaxBeta.py's (0.0, None)
ReturnsEmpty(a) ==
    IF variant = "Beta" THEN a.summary = Some([avg |-> Zero, last |-> None])
    ELSE IsNone(a.summary)

\* C11, as claimed: for a non-empty dividend collection with fewer records than
\* the requested lookback the summarizer returns Empty, not a summary computed
\* over fewer than lookback records.
C11_ShortHistoryIsEmpty ==
    \A a \in Analyses :
        (/\ ~a.divs.raised
         /\ a.divs.records # <<>>
         /\ Len(a.divs.records) < params.num_dividends) => ReturnsEmpty(a)

\* every fetch answered and the chain had contracts, but none passed the filter
NoOpportunities(a) ==
    /\ a.status = "no match"
    /\ ~a.divs.raised /\ ~a.price[1].raised /\ ~a.chain[1].raised
    /\ a.chain[1].puts # <<>>

\* the dividend fetch or the option-chain fetch raised
FailedFetch(a) ==
    \/ a.divs.raised
    \/ ~IsNone(a.chain) /\ a.chain[1].raised

\* what the symbol's analysis hands back to the handler: analyze_symbol's result
\* (BBMaxBeta.py), fetch_dividend_data's and fetch_put_option_data's values (BBMax.py)
Returned(a) == IF variant = "Beta" THEN <<a.result>> ELSE <<a.summary, Rows(a)>>

\* C12, as claimed: a symbol fetched successfully with no contract passing the
\* filter and a symbol whose dividend or option-chain fetch failed never yield
\* the same return value, nor the same user-visible messages.
C12_NoMatchIsDistinct ==
    \A a, b \in Analyses :
        (NoOpportunities(a) /\ FailedFetch(b)) =>
            /\ Returned(a) # Returned(b)
            /\ a.messages # b.messages

\* the frame a symbol's analysis appends to the batch's list, if any
Appended(a) == IF variant = "Beta" THEN HighlightedRows(Rows(a)) ELSE Rows(a)

RECURSIVE Frames(_)
Frames(analyses) ==
    IF analyses = <<>> THEN <<>>
    ELSE (IF Appended(Head(analyses)) = <<>> THEN <<>> ELSE <<Appended(Head(analyses))>>)
         \o Frames(Tail(analyses))

AggregateBy ==
    IF variant = "Beta" THEN "Expiration Date, Last Price" ELSE "Expiration Date, Strike Price"

\* the batch's table had the symbols' results arrived in the order given
ReplayBatch(analyses) == sort_values(Concat(Frames(analyses)), AggregateBy)

\* the same per-symbol results in every processing order
Orderings(s) ==
    { [i \in DOMAIN s |-> s[f[i]]] :
        f \in {g \in [DOMAIN s -> DOMAIN s] : \A i, j \in DOMAIN s : g[i] = g[j] => i = j} }

SortKey(r) ==
    IF variant = "Beta" THEN <<r.ExpirationDate, r.LastPrice>>
    ELSE <<r.ExpirationDate, r.StrikePrice>>

SortKeys(rows) == [i \in DOMAIN rows |-> SortKey(rows[i])]

PositionOf(analyses, symbol) == CHOOSE i \in DOMAIN analyses : analyses[i].symbol = symbol

TiesKeepProcessingOrder(analyses, rows) ==
    \A i, j \in DOMAIN rows :
        (i < j /\ SortKey(rows[i]) = SortKey(rows[j]))
            => PositionOf(analyses, rows[i].Symbol) <= PositionOf(analyses, rows[j].Symbol)

BatchDone == mode = "batch" /\ pc = "done"

\* C13, as claimed: the finished batch's table (rows and their order) is the
\* same for every permutation of the order in which the symbols are processed,
\* also when rows of different symbols tie on the sort key.
C13_Original ==
    BatchDone => \A p \in Orderings(log) : ReplayBatch(p) = shown.table

\* C13, amended: the finished batch's table is the stable sort of the symbols'
\* results concatenated in processing order. Every permutation of the
\* processing order yields the same rows and the same sequence of sort keys,
\* and rows that tie on the sort key stand in the order in which their
\* symbols were processed.
C13_StableAggregate ==
    BatchDone =>
        /\ ReplayBatch(log) = shown.table
        /\ \A p \in Orderings(log) :
              LET t == ReplayBatch(p)
              IN  /\ RowSet(t) = RowSet(shown.table)
                  /\ Len(t) = Len(shown.table)
                  /\ SortKeys(t) = SortKeys(shown.table)
                  /\ TiesKeepProcessingOrder(p, t)

\* C13 witness: a finished batch whose table holds rows of two symbols that tie
\* on the sort key, and a processing order that yields another table.
C13_Witness ==
    /\ BatchDone
    /\ \E i, j \in DOMAIN shown.table :
          /\ i < j
          /\ SortKey(shown.table[i]) = SortKey(shown.table[j])
          /\ shown.table[i].Symbol # shown.table[j].Symbol
    /\ \E p \in Orderings(log) : ReplayBatch(p) # shown.table

\* the rows a symbol gets from nothing but its own feed answers and the
\* sidebar inputs: its own average dividend and last dividend date, the budget
\* and the strike threshold made from them and from its own close price, its
\* own option chain
OwnRows(a) ==
    IF IsNone(a.price) \/ IsNone(a.chain) THEN <<>>
    ELSE IF a.price[1].raised \/ a.price[1].closes = <<>> THEN <<>>
    ELSE
    LET close == a.price[1].closes[Len(a.price[1].closes)]
    IN  IF variant = "Beta"
        THEN LET d   == fetch_dividends_from_yfinance(a.divs, params.num_dividends)
                 ext == ExtendedPremium(d.avg, params.pct, params.periods)
                 thr == StrikeThresholdBeta(close, params.strike_offset)
                 own == FilterByLastPrice(FilterByStrike(fetch_put_options(a.chain[1]), thr), ext)
             IN  IF FracIsZero(d.avg) \/ own = <<>> THEN <<>>
                 ELSE FormatAndHighlight(
                          sort_values(RenameColumns(own, a.symbol), "Timestamp, Last Price"),
                          HighlightDate(d.last[1], params.today, params.periods))
        ELSE LET s == fetch_dividend_data(a.divs, params.num_dividends)
             IN  IF IsNone(s) THEN <<>>
                 ELSE fetch_put_option_data(a.symbol,
                          ExtendedPremium(s[1].avg, params.pct, params.periods),
                          StrikeThresholdBBMax(close, params.strike_offset),
                          s[1], params.pct, Frequency(a.symbol), a.chain[1])

Skipped(a) == a.status \in {"no dividend", "no price", "exception", "no puts"}

\* C14: in a batch run, with or without skipped symbols, the rows every symbol
\* contributes are the rows its own average dividend, last dividend date,
\* budget, strike threshold and option chain admit and highlight, and every
\* row of the finished table carries the Symbol of the one analysis whose own
\* values yield it; nothing bound by an earlier symbol's pass is used.
C14_OwnValuesOnly ==
    mode = "batch" =>
        /\ \A a \in Analyses : Rows(a) = OwnRows(a)
        /\ \A i, j \in DOMAIN log : log[i].symbol = log[j].symbol => i = j
        /\ pc = "done" =>
              \A r \in RowSet(shown.table) :
                  \E a \in Analyses : a.symbol = r.Symbol /\ r \in RowSet(OwnRows(a))

\* C14 witness: a finished batch in which a symbol with rows in the table was
\* processed, then a symbol was skipped, then another symbol put rows in the
\* table, the last under locals the first pass had bound.
C14_Witness ==
    /\ BatchDone
    /\ \E i, j, k \in DOMAIN log :
          /\ i < j /\ j < k
          /\ Skipped(log[j])
          /\ \E r, q \in RowSet(shown.table) :
                /\ r.Symbol = log[i].symbol /\ r \in RowSet(Rows(log[i]))
                /\ q.Symbol = log[k].symbol /\ q \in RowSet(Rows(log[k]))
                /\ RowContract(r) # RowContract(q)

====
